---- MODULE Spec2Model ----
\* Model of the MMS_FA export and INT8 validation scripts:
\*   scripts/export_mms_fa_model.py     (export run: steps 1..7 and summary)
\*   scripts/test_int8_quantization.py  (INT8 test run: steps 1..5)
\* A behaviour is one run of one script (Spec), or one application of a pure
\* function of the scripts to drawn inputs (SpecFn).
EXTENDS Integers, Sequences, FiniteSets, TLC

VARIABLES
    script,               \* which script this run executes
    pc,                   \* position of the run
    started,              \* steps whose header has been printed
    raised,               \* steps in which an exception was raised
    disk,                 \* the model directory: path -> None or Some(file)
    size_report,          \* the sizes a script printed: Optional record
    case,                 \* number of test cases the battery loop has completed
    all_diffs,            \* test_int8: list of per-case records
    fp32_path, int8_path, \* decision paths returned by forced_align
    fp32_boundaries, int8_boundaries,
    comparison,           \* what the boundary comparison printed
    avg_match,            \* test_int8 summary: Optional rational <<num, den>>
    verdict,              \* test_int8 summary: "PASS" / "WARN" / "FAIL" / "none"
    output,               \* export: what the loaded model returns when called
    emissions,            \* export step 4: Optional value
    wrapped,              \* result of EmissionsOnlyWrapper.forward
    max_diff,             \* export step 6: Optional max |onnx - torch|
    parity,               \* export step 6: "PASS" / "WARNING" / "none"
    varlen_done,          \* export step 7: durations run successfully
    case_report,          \* test_int8 step 3: the (matching, total) pairs printed
    success_reported,     \* "Export completed successfully!" was printed
    session               \* the InferenceSession(s): "unset" / "loaded"

vars == <<script, pc, started, raised, disk, size_report, case, all_diffs,
          fp32_path, int8_path, fp32_boundaries, int8_boundaries, comparison,
          avg_match, verdict, output, emissions, wrapped, max_diff, parity,
          varlen_done, case_report, success_reported, session>>

--------------------------------------------------------------------------
\* Bounds of the model.

\* Longest decision path drawn when get_word_boundaries is applied on its own.
MaxFrames == 4
\* Longest decision path forced_align returns inside a whole test run.
MaxAlignFrames == 2
\* Emission frames per second of audio (the real model gives about 49).
FramesPerSecond == 1
\* Largest max-difference, in units of 1e-5, step 6 of the export observes.
MaxDiffUnits == 11

--------------------------------------------------------------------------
\* Program constants.

BlankToken == 0
SpaceToken == 28
StrideMs == 20
PassPercent == 95
WarnPercent == 90
\* 1e-4 in units of 1e-5
ToleranceUnits == 10

\* Python's None / an unassigned name, and a held value.
None == <<>>
Some(v) == <<v>>

Abs(n) == IF n < 0 THEN -n ELSE n
Min(a, b) == IF a < b THEN a ELSE b

--------------------------------------------------------------------------
\* Alignment Path Analyzer (test_int8_quantization.py, step 4).

\* Label indices a decision path may hold: blank, one letter, the separator.
Labels == {BlankToken, 1, SpaceToken}

PathsUpTo(n) == UNION {[1..k -> Labels] : k \in 0..n}

\* forced_align is given the same input_lengths for both precisions, so both
\* paths have the emission's frame count.
PathPairs(n) == {pp \in PathsUpTo(n) \X PathsUpTo(n) : Len(pp[1]) = Len(pp[2])}

\* Faulty variant: the carried label is only updated on separator frames.
RECURSIVE ScanCarryOnlySeparator(_, _, _, _)
ScanCarryOnlySeparator(path, frame, current_token, boundaries) ==
    IF frame >= Len(path) THEN boundaries
    ELSE LET token_idx == path[frame + 1] IN
         IF token_idx # BlankToken /\ token_idx # current_token
         THEN IF token_idx = SpaceToken
              THEN ScanCarryOnlySeparator(path, frame + 1, token_idx,
                                          Append(boundaries, frame))
              ELSE ScanCarryOnlySeparator(path, frame + 1, current_token, boundaries)
         ELSE ScanCarryOnlySeparator(path, frame + 1, current_token, boundaries)

\* The loop of get_word_boundaries from frame `frame` on (frames count from 0).
RECURSIVE ScanFrom(_, _, _, _)
ScanFrom(path, frame, current_token, boundaries) ==
    IF frame >= Len(path) THEN boundaries
    ELSE LET token_idx == path[frame + 1] IN
         IF token_idx # BlankToken /\ token_idx # current_token
         THEN ScanFrom(path, frame + 1, token_idx,
                       IF token_idx = SpaceToken
                       THEN Append(boundaries, frame)
                       ELSE boundaries)
         ELSE ScanFrom(path, frame + 1, current_token, boundaries)

\* Faulty variant: no carried label, every separator frame is a boundary.
RECURSIVE ScanEverySeparator(_, _, _)
ScanEverySeparator(path, frame, boundaries) ==
    IF frame >= Len(path) THEN boundaries
    ELSE ScanEverySeparator(path, frame + 1,
                            IF path[frame + 1] = SpaceToken
                            THEN Append(boundaries, frame)
                            ELSE boundaries)

get_word_boundaries_EverySeparator(path) == ScanEverySeparator(path, 0, <<>>)

get_word_boundaries_CarryOnlySeparator(path) ==
    ScanCarryOnlySeparator(path, 0, -1, <<>>)

get_word_boundaries(path) == ScanFrom(path, 0, -1, <<>>)

\* [abs(a - b) for a, b in zip(A, B)]
ZipAbsDiff(A, B) == [i \in 1..Min(Len(A), Len(B)) |-> Abs(A[i] - B[i])]

\* [d * 20 for d in diffs_frames]
ToMs(diffs) == [i \in 1..Len(diffs) |-> diffs[i] * StrideMs]

\* Python's max over a non-empty list, left to right.
RECURSIVE PyMaxFrom(_, _, _)
PyMaxFrom(xs, i, best) ==
    IF i > Len(xs) THEN best
    ELSE PyMaxFrom(xs, i + 1, IF xs[i] > best THEN xs[i] ELSE best)

PyMax(xs) == PyMaxFrom(xs, 2, xs[1])

\* Faulty variant: the length test is dropped, the zip runs on whatever it is given.
CompareBoundaries_NoLengthTest(A, B) ==
    LET diffs_frames == ZipAbsDiff(A, B)
        diffs_ms     == ToMs(diffs_frames)
    IN [warning     |-> FALSE,
        diffs_frames |-> Some(diffs_frames),
        diffs_ms     |-> Some(diffs_ms),
        max_boundary_diff_ms |->
            Some(IF diffs_ms # <<>> THEN PyMax(diffs_ms) ELSE 0)]

\* Faulty variant: the frame differences are reported as they are, not times 20 ms.
CompareBoundaries_NoStride(A, B) ==
    IF Len(A) = Len(B)
    THEN LET diffs_frames == ZipAbsDiff(A, B)
             diffs_ms     == diffs_frames
         IN [warning     |-> FALSE,
             diffs_frames |-> Some(diffs_frames),
             diffs_ms     |-> Some(diffs_ms),
             max_boundary_diff_ms |->
                 Some(IF diffs_ms # <<>> THEN PyMax(diffs_ms) ELSE 0)]
    ELSE [warning |-> TRUE, diffs_frames |-> None, diffs_ms |-> None,
          max_boundary_diff_ms |-> None]

\* The comparison of the two boundary lists and what it prints.
CompareBoundaries(A, B) ==
    IF Len(A) = Len(B)
    THEN LET diffs_frames == ZipAbsDiff(A, B)
             diffs_ms     == ToMs(diffs_frames)
         IN [warning     |-> FALSE,
             diffs_frames |-> Some(diffs_frames),
             diffs_ms     |-> Some(diffs_ms),
             max_boundary_diff_ms |->
                 Some(IF diffs_ms # <<>> THEN PyMax(diffs_ms) ELSE 0)]
    ELSE [warning |-> TRUE, diffs_frames |-> None, diffs_ms |-> None,
          max_boundary_diff_ms |-> None]

\* Nothing compared yet.
NoComparison ==
    [warning |-> FALSE, diffs_frames |-> None, diffs_ms |-> None,
     max_boundary_diff_ms |-> None]

--------------------------------------------------------------------------
\* Output Normalizer (export_mms_fa_model.py, EmissionsOnlyWrapper).

Tensor(k) == [kind |-> "tensor", id |-> k]
Tuple(items) == [kind |-> "tuple", items |-> items]
\* A value that is neither a tensor nor a tuple (a list, a dict, None).
OtherValue == [kind |-> "other"]

IsTensor(v) == v.kind = "tensor"
IsTuple(v) == v.kind = "tuple"

\* What the loaded model may return when called.
ModelOutputs ==
    {Tensor(1), Tuple(<<Tensor(1)>>), Tuple(<<Tensor(1), Tensor(2)>>),
     Tuple(<<>>), Tuple(<<OtherValue, Tensor(1)>>), Tuple(<<OtherValue>>),
     OtherValue}

Return(v) == [raises |-> "none", value |-> Some(v)]
Raise(e) == [raises |-> e, value |-> None]

\* EmissionsOnlyWrapper.forward, given what self.model(audio) returned.
forward(out) ==
    IF IsTuple(out)
    THEN IF Len(out.items) = 0 THEN Raise("IndexError") ELSE Return(out.items[1])
    ELSE Return(out)

--------------------------------------------------------------------------
\* Exact rationals <<numerator, denominator>>, denominator > 0. The script
\* computes the rates in floating point; the model keeps them exact.

RatAdd(a, b) == <<a[1] * b[2] + b[1] * a[2], a[2] * b[2]>>
RatDivInt(a, n) == <<a[1], a[2] * n>>
RatGe(a, n) == a[1] >= n * a[2]

--------------------------------------------------------------------------
\* test_int8_quantization.py

\* Seconds of audio of the four test cases (16000, 16000, 32000 and 80000
\* samples at 16 kHz).
TestDurations == <<1, 1, 2, 5>>

NumCases == Len(TestDurations)

\* fp32_argmax.size for test case i.
TotalFrames(i) == TestDurations[i] * FramesPerSecond

\* matching_frames / total_frames * 100
MatchRate(matching_frames, total_frames) == <<matching_frames * 100, total_frames>>

\* sum(d["match_rate"] for d in all_diffs), from element i on.
RECURSIVE SumMatchRates(_, _, _)
SumMatchRates(diffs, i, acc) ==
    IF i > Len(diffs) THEN acc
    ELSE SumMatchRates(diffs, i + 1, RatAdd(acc, diffs[i].match_rate))

\* Faulty variant: all matching frames over all frames.
RECURSIVE PooledFrom(_, _, _, _)
PooledFrom(diffs, i, m, t) ==
    IF i > Len(diffs) THEN <<m, t>>
    ELSE PooledFrom(diffs, i + 1,
                    m + (diffs[i].match_rate[1] * diffs[i].frames)
                          \div diffs[i].match_rate[2],
                    t + diffs[i].frames)

AverageMatch_Pooled(diffs) == PooledFrom(diffs, 1, 0, 0)

\* avg_match = sum(d["match_rate"] for d in all_diffs) / len(all_diffs)
AverageMatch(diffs) == RatDivInt(SumMatchRates(diffs, 1, <<0, 1>>), Len(diffs))

\* Faulty variant: strict comparisons.
Classify_Strict(avg) ==
    IF avg[1] > PassPercent * avg[2] THEN "PASS"
    ELSE IF avg[1] > WarnPercent * avg[2] THEN "WARN"
    ELSE "FAIL"

\* The if / elif / else of the summary.
Classify(avg) ==
    IF RatGe(avg, PassPercent) THEN "PASS"
    ELSE IF RatGe(avg, WarnPercent) THEN "WARN"
    ELSE "FAIL"

--------------------------------------------------------------------------
\* The model directory. A path is a tuple, so that p + ".data" is Append.

fp32_model == <<"mms-fa.onnx">>
\* Faulty variant: the quantized graph is written over its input.
int8_model_SameAsInput == <<"mms-fa.onnx">>
int8_model == <<"mms-fa-int8.onnx">>
ONNX_PATH == <<"mms-fa.onnx">>

DataPath(p) == Append(p, ".data")

DiskPaths ==
    {fp32_model, DataPath(fp32_model), int8_model, DataPath(int8_model),
     ONNX_PATH, DataPath(ONNX_PATH)}

\* A file: what it holds and its size (in MB).
File(holds, size) == [holds |-> holds, size |-> size]

EmptyDisk == [p \in DiskPaths |-> None]

\* What torch.onnx.export writes: the graph, alone or with a weight sidecar.
ExportLayouts ==
    {[graph |-> Some(File("fp32 graph", 1)), data |-> None],
     [graph |-> Some(File("fp32 graph", 1)),
      data |-> Some(File("fp32 weights", 3))]}

\* What a test run may find at fp32_model: nothing, or an exported graph.
Fp32Layouts == {[graph |-> None, data |-> None]} \cup ExportLayouts

\* What quantize_dynamic writes: the graph, alone or with a weight sidecar.
Int8Layouts ==
    {[graph |-> Some(File("int8 graph", 1)), data |-> None],
     [graph |-> Some(File("int8 graph", 1)),
      data |-> Some(File("int8 weights", 1))]}

\* The directory after an artifact was written at `path`.
WriteArtifact(d, path, layout) ==
    [p \in DOMAIN d |->
        IF p = path THEN layout.graph
        ELSE IF p = DataPath(path) /\ layout.data # None THEN layout.data
        ELSE d[p]]

DiskHolding(found) == WriteArtifact(EmptyDisk, fp32_model, found)

\* The size report of the test script: os.path.getsize raises on a missing
\* file; only the int8 sidecar is tested with os.path.exists first.
SizeReport(d) ==
    IF d[fp32_model] = None \/ d[DataPath(fp32_model)] = None
           \/ d[int8_model] = None
    THEN Raise("FileNotFoundError")
    ELSE LET fp32_size      == d[fp32_model][1].size
             fp32_data_size == d[DataPath(fp32_model)][1].size
             int8_size      == d[int8_model][1].size
             int8_data_path == DataPath(int8_model)
             int8_data_size == IF d[int8_data_path] # None
                               THEN d[int8_data_path][1].size ELSE 0
         IN Return([fp32_total |-> fp32_size + fp32_data_size,
                    int8_total |-> int8_size + int8_data_size,
                    ratio |-> <<fp32_size + fp32_data_size,
                                int8_size + int8_data_size>>])

\* The size computation of the export script.
ExportSizes(d) ==
    LET file_size_bytes    == d[ONNX_PATH][1].size
        external_data_path == DataPath(ONNX_PATH)
        external_data_size == IF d[external_data_path] # None
                              THEN d[external_data_path][1].size ELSE 0
    IN [file_size |-> file_size_bytes,
        external_data_size |-> external_data_size,
        total_size |-> file_size_bytes + external_data_size]

ExportVarsUnchanged ==
    UNCHANGED <<output, emissions, wrapped, max_diff, parity, varlen_done,
                success_reported>>

Int8VarsUnchanged ==
    UNCHANGED <<disk, size_report, case, all_diffs, case_report, avg_match,
                verdict, fp32_path, int8_path, fp32_boundaries,
                int8_boundaries, comparison>>

AlignVarsUnchanged ==
    UNCHANGED <<fp32_path, int8_path, fp32_boundaries, int8_boundaries, comparison>>

\* Step 1: quantize_dynamic(model_input=fp32_model, model_output=int8_model),
\* then the size report; any exception exits 1. quantize_dynamic writes the
\* graph, and a weight sidecar if it makes one, at model_output; when it
\* raises it may or may not have written them.
Quantize ==
    /\ script = "int8_test" /\ pc = "q1_quantize"
    /\ started' = started \cup {"q1_quantize"}
    /\ \E quantize_raises \in BOOLEAN, written \in Int8Layouts :
         IF quantize_raises \/ disk[fp32_model] = None
         THEN /\ disk' \in {disk, WriteArtifact(disk, int8_model, written)}
              /\ raised' = raised \cup {"q1_quantize"}
              /\ pc' = "exit1"
              /\ UNCHANGED size_report
         ELSE LET after  == WriteArtifact(disk, int8_model, written)
                  report == SizeReport(after)
              IN /\ disk' = after
                 /\ IF report.raises # "none"
                    THEN /\ raised' = raised \cup {"q1_sizes"}
                         /\ pc' = "exit1"
                         /\ UNCHANGED size_report
                    ELSE /\ raised' = raised
                         /\ pc' = "q2_load"
                         /\ size_report' = report.value
    /\ UNCHANGED <<script, session, case, all_diffs, case_report, avg_match,
                   verdict>>
    /\ AlignVarsUnchanged /\ ExportVarsUnchanged

\* Step 2: both InferenceSession constructors; any exception exits 1.
LoadSessions ==
    /\ script = "int8_test" /\ pc = "q2_load"
    /\ started' = started \cup {"q2_load"}
    /\ \E load_raises \in {"none", "fp32", "int8"} :
         IF load_raises # "none"
         THEN /\ raised' = raised \cup {"q2_load"}
              /\ pc' = "exit1"
         ELSE /\ raised' = raised
              /\ pc' = "q3_battery"
    /\ session' = IF pc' = "q3_battery" THEN "loaded" ELSE session
    /\ UNCHANGED <<script, disk, size_report, case, all_diffs, case_report,
                   avg_match, verdict>>
    /\ AlignVarsUnchanged /\ ExportVarsUnchanged

\* Step 3, one iteration of the loop over test_cases. Nothing catches an
\* exception of sess.run here: the interpreter ends the script.
BatteryCase ==
    /\ script = "int8_test" /\ pc = "q3_battery" /\ case < NumCases
    /\ started' = started \cup {"q3_battery"}
    /\ \E run_raises \in {"none", "fp32", "int8"} :
         IF run_raises # "none"
         THEN /\ raised' = raised \cup {"q3_battery"}
              /\ pc' = "crashed"
              /\ UNCHANGED <<case, all_diffs, case_report>>
         ELSE LET total_frames == TotalFrames(case + 1) IN
              \E matching_frames \in 0..total_frames :
                /\ all_diffs' = Append(all_diffs,
                       [name |-> case + 1,
                        match_rate |-> MatchRate(matching_frames, total_frames),
                        frames |-> total_frames])
                /\ case_report' = Append(case_report,
                       [matching |-> matching_frames, total |-> total_frames])
                /\ case' = case + 1
                /\ pc' = IF case + 1 = NumCases THEN "q4_align" ELSE "q3_battery"
                /\ raised' = raised
    /\ UNCHANGED <<script, session, disk, size_report, avg_match, verdict>>
    /\ AlignVarsUnchanged /\ ExportVarsUnchanged

\* Step 4: the forced alignment test. The whole step sits in one try whose
\* handler prints "skipped" and goes on.
ForcedAlignmentTest ==
    /\ script = "int8_test" /\ pc = "q4_align"
    /\ started' = started \cup {"q4_align"}
    /\ pc' = "q5_summary"
    /\ \E step_raises \in BOOLEAN :
         IF step_raises
         THEN /\ raised' = raised \cup {"q4_align"}
              /\ AlignVarsUnchanged
         ELSE \E pp \in PathPairs(MaxAlignFrames) :
                /\ raised' = raised
                /\ fp32_path' = pp[1]
                /\ int8_path' = pp[2]
                /\ fp32_boundaries' = get_word_boundaries(pp[1])
                /\ int8_boundaries' = get_word_boundaries(pp[2])
                /\ comparison' = CompareBoundaries(get_word_boundaries(pp[1]),
                                                   get_word_boundaries(pp[2]))
    /\ UNCHANGED <<script, session, disk, size_report, case, all_diffs,
                   case_report, avg_match, verdict>>
    /\ ExportVarsUnchanged

\* Step 5: the summary and its classification.
Summary ==
    /\ script = "int8_test" /\ pc = "q5_summary"
    /\ started' = started \cup {"q5_summary"}
    /\ avg_match' = Some(AverageMatch(all_diffs))
    /\ verdict' = Classify(AverageMatch(all_diffs))
    /\ pc' = "done"
    /\ UNCHANGED <<script, session, raised, disk, size_report, case, all_diffs,
                   case_report>>
    /\ AlignVarsUnchanged /\ ExportVarsUnchanged

--------------------------------------------------------------------------
\* export_mms_fa_model.py

\* Seconds times two of the variable-length inputs of step 7: 0.5, 1, 2, 5.
VarLenHalfSeconds == <<1, 2, 4, 10>>

\* What step 6 may measure: a difference in units of 1e-5, or NaN.
MaxDiffValues ==
    {[nan |-> FALSE, units |-> u] : u \in 0..MaxDiffUnits}
        \cup {[nan |-> TRUE, units |-> 0]}

\* Faulty variant: a difference equal to the tolerance passes too.
BelowTolerance_Inclusive(d) == ~d.nan /\ d.units <= ToleranceUnits

\* max_diff < 1e-4 (false of NaN, as every float comparison is)
BelowTolerance(d) == ~d.nan /\ d.units < ToleranceUnits

\* The if / else that follows the comparison with PyTorch.
ParityVerdict(d) == IF BelowTolerance(d) THEN "PASS" ELSE "WARNING"

\* Faulty variant: every exception of step 6 is treated as a missing runtime.
Step6Handler_SkipAll(exc) == "e7_varlen"

\* The except clauses of step 6: ImportError skips the verification, any
\* other exception exits 1.
Step6Handler(exc) == IF exc = "ImportError" THEN "e7_varlen" ELSE "exit1"

OtherVarsUnchanged == Int8VarsUnchanged /\ UNCHANGED script

\* Step 1: import of the MMS_FA bundle; ImportError exits 1.
LoadBundle ==
    /\ script = "export" /\ pc = "e1_bundle"
    /\ started' = started \cup {"e1_bundle"}
    /\ \E import_error \in BOOLEAN :
         IF import_error
         THEN raised' = raised \cup {"e1_bundle"} /\ pc' = "exit1"
         ELSE raised' = raised /\ pc' = "e2_labels"
    /\ OtherVarsUnchanged /\ ExportVarsUnchanged /\ UNCHANGED session

\* Step 2: labels read and written; any exception exits 1.
SaveLabels ==
    /\ script = "export" /\ pc = "e2_labels"
    /\ started' = started \cup {"e2_labels"}
    /\ \E step_raises \in BOOLEAN :
         IF step_raises
         THEN raised' = raised \cup {"e2_labels"} /\ pc' = "exit1"
         ELSE raised' = raised /\ pc' = "e3_model"
    /\ OtherVarsUnchanged /\ ExportVarsUnchanged /\ UNCHANGED session

\* Step 3: model loaded; any exception exits 1.
LoadModel ==
    /\ script = "export" /\ pc = "e3_model"
    /\ started' = started \cup {"e3_model"}
    /\ \E step_raises \in BOOLEAN :
         IF step_raises
         THEN raised' = raised \cup {"e3_model"} /\ pc' = "exit1"
         ELSE raised' = raised /\ pc' = "e4_torch"
    /\ OtherVarsUnchanged /\ ExportVarsUnchanged /\ UNCHANGED session

\* Step 4: the model is called once; a tuple is unpacked, then .shape and
\* .dtype of the result are read, which only a tensor has. Any exception
\* (of the call, IndexError of (), AttributeError of .shape) exits 1.
TestPyTorchInference ==
    /\ script = "export" /\ pc = "e4_torch"
    /\ started' = started \cup {"e4_torch"}
    /\ \E call_raises \in BOOLEAN, out \in ModelOutputs :
         IF call_raises
         THEN /\ raised' = raised \cup {"e4_torch"} /\ pc' = "exit1"
              /\ UNCHANGED <<output, emissions>>
         ELSE /\ output' = out
              /\ LET picked == IF IsTuple(out)
                               THEN (IF Len(out.items) = 0 THEN None
                                     ELSE Some(out.items[1]))
                               ELSE Some(out)
                 IN IF picked # None /\ IsTensor(picked[1])
                    THEN /\ emissions' = picked
                         /\ raised' = raised /\ pc' = "e5_export"
                    ELSE /\ emissions' = emissions
                         /\ raised' = raised \cup {"e4_torch"} /\ pc' = "exit1"
    /\ UNCHANGED <<wrapped, max_diff, parity, varlen_done, success_reported>>
    /\ OtherVarsUnchanged /\ UNCHANGED session

\* Step 5: torch.onnx.export traces the wrapper on dummy_audio and writes
\* the graph, with a weight sidecar if it makes one, at ONNX_PATH; then the
\* sizes are read; any exception exits 1.
ExportOnnx ==
    /\ script = "export" /\ pc = "e5_export"
    /\ started' = started \cup {"e5_export"}
    /\ wrapped' = Some(forward(output))
    /\ \E export_raises \in BOOLEAN, written \in ExportLayouts :
         IF export_raises \/ forward(output).raises # "none"
         THEN /\ raised' = raised \cup {"e5_export"} /\ pc' = "exit1"
              /\ UNCHANGED <<disk, size_report>>
         ELSE LET after == WriteArtifact(disk, ONNX_PATH, written) IN
              /\ disk' = after
              /\ size_report' = Some(ExportSizes(after))
              /\ raised' = raised /\ pc' = "e6_verify"
    /\ UNCHANGED <<output, emissions, max_diff, parity, varlen_done,
                   success_reported>>
    /\ UNCHANGED <<script, session, case, all_diffs, case_report, avg_match,
                   verdict>>
    /\ AlignVarsUnchanged

\* Step 6: import onnxruntime, load the session, run it on dummy_audio and
\* compare with the PyTorch emissions. A failing import raises ImportError;
\* InferenceSession and session.run report failure with the runtime's own
\* exception classes, which the second except clause takes.
VerifyOnnx ==
    /\ script = "export" /\ pc = "e6_verify"
    /\ started' = started \cup {"e6_verify"}
    /\ \E outcome \in {"ok", "e6_import", "e6_load", "e6_run"} :
         IF outcome = "ok"
         THEN \E d \in MaxDiffValues :
                /\ session' = "loaded"
                /\ max_diff' = Some(d)
                /\ parity' = ParityVerdict(d)
                /\ raised' = raised
                /\ pc' = "e7_varlen"
         ELSE /\ session' = IF outcome = "e6_run" THEN "loaded" ELSE session
              /\ raised' = raised \cup {outcome}
              /\ pc' = Step6Handler(IF outcome = "e6_import" THEN "ImportError"
                                    ELSE "RuntimeError")
              /\ UNCHANGED <<max_diff, parity>>
    /\ UNCHANGED <<output, emissions, wrapped, varlen_done, success_reported>>
    /\ OtherVarsUnchanged

\* Step 7: the loop over the four durations sits inside one try; the first
\* exception (NameError when no session was ever bound) ends the loop, is
\* printed, and the run goes on to the summary.
TestVariableLength ==
    /\ script = "export" /\ pc = "e7_varlen"
    /\ started' = started \cup {"e7_varlen"}
    /\ \E completed \in 0..Len(VarLenHalfSeconds) :
         /\ session = "unset" => completed = 0
         /\ varlen_done' = completed
         /\ raised' = IF completed < Len(VarLenHalfSeconds)
                      THEN raised \cup {"e7_varlen"} ELSE raised
    /\ pc' = "e_summary"
    /\ UNCHANGED <<output, emissions, wrapped, max_diff, parity, success_reported>>
    /\ OtherVarsUnchanged /\ UNCHANGED session

\* The export summary, ending with "Export completed successfully!".
ExportSummary ==
    /\ script = "export" /\ pc = "e_summary"
    /\ started' = started \cup {"e_summary"}
    /\ success_reported' = TRUE
    /\ pc' = "done"
    /\ UNCHANGED <<output, emissions, wrapped, max_diff, parity, varlen_done,
                   raised>>
    /\ OtherVarsUnchanged /\ UNCHANGED session

--------------------------------------------------------------------------
\* Runs of the two scripts.

InitCommon ==
    /\ started = {} /\ raised = {}
    /\ case = 0 /\ all_diffs = <<>> /\ case_report = <<>>
    /\ fp32_boundaries = <<>> /\ int8_boundaries = <<>>
    /\ comparison = NoComparison
    /\ avg_match = None /\ verdict = "none"
    /\ emissions = None /\ wrapped = None
    /\ max_diff = None /\ parity = "none"
    /\ varlen_done = 0 /\ success_reported = FALSE
    /\ session = "unset"

Init ==
    /\ InitCommon
    /\ fp32_path = <<>> /\ int8_path = <<>>
    /\ output = OtherValue
    /\ size_report = None
    /\ \/ script = "export" /\ pc = "e1_bundle" /\ disk = EmptyDisk
       \/ /\ script = "int8_test" /\ pc = "q1_quantize"
          /\ \E found \in Fp32Layouts : disk = DiskHolding(found)

Next ==
    \/ LoadBundle \/ SaveLabels \/ LoadModel \/ TestPyTorchInference
    \/ ExportOnnx \/ VerifyOnnx \/ TestVariableLength \/ ExportSummary
    \/ Quantize \/ LoadSessions \/ BatteryCase \/ ForcedAlignmentTest \/ Summary

Spec == Init /\ [][Next]_vars

--------------------------------------------------------------------------
\* The pure functions of the scripts applied to drawn inputs.

InitFn ==
    /\ InitCommon
    /\ script = "functions"
    /\ disk = EmptyDisk /\ size_report = None
    /\ \/ /\ pc = "f_align"
          /\ \E pp \in PathPairs(MaxFrames) : fp32_path = pp[1] /\ int8_path = pp[2]
          /\ output = OtherValue
       \/ /\ pc = "f_forward"
          /\ fp32_path = <<>> /\ int8_path = <<>>
          /\ output \in ModelOutputs

\* get_word_boundaries on both paths, then the comparison (lines 141-154).
ApplyAlignment ==
    /\ script = "functions" /\ pc = "f_align"
    /\ fp32_boundaries' = get_word_boundaries(fp32_path)
    /\ int8_boundaries' = get_word_boundaries(int8_path)
    /\ comparison' = CompareBoundaries(get_word_boundaries(fp32_path),
                                       get_word_boundaries(int8_path))
    /\ pc' = "f_aligned"
    /\ UNCHANGED <<script, started, raised, disk, size_report, case, all_diffs,
                   case_report, fp32_path, int8_path, avg_match, verdict, session>>
    /\ ExportVarsUnchanged

\* EmissionsOnlyWrapper.forward on the drawn model output.
ApplyForward ==
    /\ script = "functions" /\ pc = "f_forward"
    /\ wrapped' = Some(forward(output))
    /\ pc' = "f_forwarded"
    /\ UNCHANGED <<output, emissions, max_diff, parity, varlen_done,
                   success_reported, started, raised, session>>
    /\ OtherVarsUnchanged

NextFn == ApplyAlignment \/ ApplyForward

SpecFn == InitFn /\ [][NextFn]_vars

--------------------------------------------------------------------------
\* Properties.

Terminated == pc \in {"done", "exit1", "crashed"}

Range(f) == {f[i] : i \in DOMAIN f}

\* The label of the last non-blank frame before frame f (frames from 0), or
\* -1 when every earlier frame is blank.
LastNonBlankBefore(path, f) ==
    LET earlier == {g \in 0..(f - 1) : path[g + 1] # BlankToken} IN
    IF earlier = {} THEN -1
    ELSE path[(CHOOSE g \in earlier : \A h \in earlier : h <= g) + 1]

IsBoundaryFrame(path, f) ==
    /\ path[f + 1] # BlankToken
    /\ path[f + 1] # LastNonBlankBefore(path, f)
    /\ path[f + 1] = SpaceToken

BoundariesExact(path, boundaries) ==
    /\ \A i \in 1..(Len(boundaries) - 1) : boundaries[i] < boundaries[i + 1]
    /\ Range(boundaries) = {f \in 0..(Len(path) - 1) : IsBoundaryFrame(path, f)}

\* C1: get_word_boundaries returns, in ascending order, exactly the frames
\* whose label is non-blank, differs from the last non-blank label before
\* the frame (none at the start) and is the separator.
C1_BoundaryScan ==
    pc = "f_aligned" =>
        /\ BoundariesExact(fp32_path, fp32_boundaries)
        /\ BoundariesExact(int8_path, int8_boundaries)

\* C1 case: two boundaries, so a letter between them moved the carried
\* label, on a path that also holds a blank frame.
C1_Witness ==
    /\ pc = "f_aligned"
    /\ Len(fp32_boundaries) = 2
    /\ BlankToken \in Range(fp32_path)

\* C2 as claimed: a failing sess.run in one test case does not abort the
\* battery; the case is left out of the aggregate and the later cases and
\* steps still run.
C2_AsClaimed ==
    (script = "int8_test" /\ "q3_battery" \in raised) =>
        /\ pc # "crashed"
        /\ pc \in {"q4_align", "q5_summary", "done"} =>
               (case = NumCases /\ Len(all_diffs) < NumCases)

\* C3 as claimed: a test run that loaded both sessions does not end without
\* the summary and its pass / warn / fail outcome.
C3_AsClaimed ==
    (script = "int8_test" /\ session = "loaded" /\ Terminated) =>
        ("q5_summary" \in started /\ verdict \in {"PASS", "WARN", "FAIL"})

C5_StructuralMismatch ==
    (pc = "f_aligned" /\ Len(fp32_boundaries) # Len(int8_boundaries)) =>
        /\ comparison.warning
        /\ comparison.diffs_frames = None
        /\ comparison.diffs_ms = None
        /\ comparison.max_boundary_diff_ms = None

\* C5 case: both lists non-empty and of different lengths.
C5_Witness ==
    /\ pc = "f_aligned"
    /\ Len(fp32_boundaries) = 2 /\ Len(int8_boundaries) = 1
    /\ comparison.warning

\* C6: boundary lists of equal length n give n time deltas, the i-th being
\* abs(a_i - b_i) * 20 ms, and the maximum is the largest of them, 0 if n = 0.
C6_TimeDeltas ==
    (pc = "f_aligned" /\ Len(fp32_boundaries) = Len(int8_boundaries)) =>
        /\ ~comparison.warning
        /\ comparison.diffs_ms # None
        /\ comparison.max_boundary_diff_ms # None
        /\ LET n  == Len(fp32_boundaries)
               ms == comparison.diffs_ms[1]
               mx == comparison.max_boundary_diff_ms[1]
           IN /\ Len(ms) = n
              /\ \A i \in 1..n :
                    ms[i] = 20 * (IF fp32_boundaries[i] >= int8_boundaries[i]
                                  THEN fp32_boundaries[i] - int8_boundaries[i]
                                  ELSE int8_boundaries[i] - fp32_boundaries[i])
              /\ IF n = 0 THEN mx = 0
                 ELSE mx \in Range(ms) /\ \A i \in 1..n : ms[i] <= mx

\* C6 case: two boundaries each, the second pair one frame apart.
C6_Witness ==
    /\ pc = "f_aligned"
    /\ Len(fp32_boundaries) = 2 /\ Len(int8_boundaries) = 2
    /\ comparison.diffs_ms = Some(<<0, 20>>)
    /\ comparison.max_boundary_diff_ms = Some(20)

\* C7: the verdict is PASS exactly for averages >= 95, WARN exactly for
\* averages in [90, 95), FAIL exactly for averages < 90.
C7_Classification ==
    (script = "int8_test" /\ pc = "done") =>
        /\ avg_match # None
        /\ verdict \in {"PASS", "WARN", "FAIL"}
        /\ LET num == avg_match[1][1]
               den == avg_match[1][2]
           IN /\ den > 0
              /\ verdict = "PASS" <=> num >= 95 * den
              /\ verdict = "WARN" <=> (num >= 90 * den /\ num < 95 * den)
              /\ verdict = "FAIL" <=> num < 90 * den

\* C7 case: an average of exactly 95 is classified PASS.
C7_Witness ==
    /\ script = "int8_test" /\ pc = "done"
    /\ avg_match # None
    /\ avg_match[1][1] = 95 * avg_match[1][2]
    /\ verdict = "PASS"

\* Product of the frame counts printed for the cases from i on.
RECURSIVE TotalProduct(_, _)
TotalProduct(report, i) ==
    IF i > Len(report) THEN 1 ELSE report[i].total * TotalProduct(report, i + 1)

\* Sum over the cases from i on of 100 * matching / total, times T.
RECURSIVE ScaledRateSum(_, _, _)
ScaledRateSum(report, i, T) ==
    IF i > Len(report) THEN 0
    ELSE 100 * report[i].matching * (T \div report[i].total)
             + ScaledRateSum(report, i + 1, T)

RECURSIVE SumMatching(_, _)
SumMatching(report, i) ==
    IF i > Len(report) THEN 0 ELSE report[i].matching + SumMatching(report, i + 1)

RECURSIVE SumTotal(_, _)
SumTotal(report, i) ==
    IF i > Len(report) THEN 0 ELSE report[i].total + SumTotal(report, i + 1)

\* C8: the reported average equals (1/n) * sum of 100 * matching_i / total_i
\* over the n recorded cases.
C8_MeanOfRates ==
    (script = "int8_test" /\ pc = "done") =>
        /\ avg_match # None
        /\ Len(case_report) = NumCases
        /\ LET T == TotalProduct(case_report, 1) IN
           avg_match[1][1] * T * Len(case_report)
               = avg_match[1][2] * ScaledRateSum(case_report, 1, T)

\* C8 case: a finished run whose mean of rates differs from the pooled
\* ratio of all matching frames to all frames.
C8_Witness ==
    /\ script = "int8_test" /\ pc = "done"
    /\ avg_match # None
    /\ avg_match[1][1] * SumTotal(case_report, 1)
           # avg_match[1][2] * 100 * SumMatching(case_report, 1)

\* C9 as claimed: parity passes exactly below the tolerance, and a run whose
\* maximum difference is at or above it is not reported as successful.
C9_AsClaimed ==
    max_diff # None =>
        /\ parity = "PASS" <=> (~max_diff[1].nan /\ max_diff[1].units < 10)
        /\ ~(~max_diff[1].nan /\ max_diff[1].units < 10) => ~success_reported

\* C9 amended: parity passes exactly below the tolerance; at or above it the
\* check prints a warning instead, and the run still goes on to report the
\* export as successful.
C9_ParityThreshold ==
    /\ max_diff = None => parity = "none"
    /\ max_diff # None =>
        /\ parity = "PASS" <=> (~max_diff[1].nan /\ max_diff[1].units < 10)
        /\ parity = "WARNING" <=> ~(~max_diff[1].nan /\ max_diff[1].units < 10)
        /\ pc \in {"e7_varlen", "e_summary", "done"}
        /\ pc = "done" => success_reported

\* C9 case: a difference equal to the tolerance, warned about, in a run
\* that ended reporting success.
C9_Witness ==
    /\ max_diff = Some([nan |-> FALSE, units |-> 10])
    /\ parity = "WARNING"
    /\ pc = "done" /\ success_reported

\* C10 as claimed: forward returns a bare tensor unchanged, the first
\* element of a tuple that starts with a tensor, and fails with
\* ShapeContractViolation on anything else; it never returns a non-tensor.
C10_AsClaimed ==
    pc = "f_forwarded" =>
        LET r == wrapped[1] IN
        /\ IsTensor(output) => r = Return(output)
        /\ (IsTuple(output) /\ Len(output.items) > 0 /\ IsTensor(output.items[1]))
               => r = Return(output.items[1])
        /\ (~IsTensor(output)
              /\ ~(IsTuple(output) /\ Len(output.items) > 0
                     /\ IsTensor(output.items[1])))
               => r = Raise("ShapeContractViolation")
        /\ r.raises = "none" => IsTensor(r.value[1])

\* A frame that carries a letter: neither blank nor the separator.
IsLetterFrame(path, f) ==
    path[f + 1] # BlankToken /\ path[f + 1] # SpaceToken

\* The frames g..h of the path hold only separators and blanks.
OnlySeparatorsAndBlanks(path, g, h) ==
    \A k \in g..h : path[k + 1] \in {SpaceToken, BlankToken}

WellFormedBoundaries(path, boundaries) ==
    /\ \A i \in 1..Len(boundaries) :
          /\ 0 <= boundaries[i] /\ boundaries[i] < Len(path)
          /\ path[boundaries[i] + 1] = SpaceToken
    /\ \A i \in 1..(Len(boundaries) - 1) :
          /\ boundaries[i] < boundaries[i + 1]
          /\ \E k \in (boundaries[i] + 1)..(boundaries[i + 1] - 1) :
                IsLetterFrame(path, k)
    \* a run of separators and blanks holds one boundary, its first separator
    /\ \A g \in 0..(Len(path) - 1), h \in 0..(Len(path) - 1) :
          (g <= h /\ OnlySeparatorsAndBlanks(path, g, h)
             /\ (g = 0 \/ IsLetterFrame(path, g - 1))
             /\ \E k \in g..h : path[k + 1] = SpaceToken)
          => LET first == CHOOSE k \in g..h :
                              /\ path[k + 1] = SpaceToken
                              /\ \A j \in g..(k - 1) : path[j + 1] # SpaceToken
             IN {k \in g..h : k \in Range(boundaries)} = {first}

\* C13: the boundaries are strictly increasing separator frames inside the
\* path, any two consecutive ones have a letter frame between them, and a
\* run of separator frames broken only by blanks gives exactly one boundary,
\* at its first separator frame.
C13_BoundaryShape ==
    pc = "f_aligned" =>
        /\ WellFormedBoundaries(fp32_path, fp32_boundaries)
        /\ WellFormedBoundaries(int8_path, int8_boundaries)

\* C13 case: separator, blank, separator gives the single boundary 0; the
\* other path has two boundaries around a letter.
C13_Witness ==
    /\ pc = "f_aligned"
    /\ fp32_path = <<SpaceToken, BlankToken, SpaceToken>>
    /\ fp32_boundaries = <<0>>
    /\ int8_path = <<SpaceToken, 1, SpaceToken>>
    /\ int8_boundaries = <<0, 2>>

\* The size of the file at p, a missing file counting as 0.
SizeOrZero(d, p) == IF d[p] = None THEN 0 ELSE d[p][1].size

\* quantize_dynamic has returned without raising in this test run.
QuantizationSucceeded ==
    /\ script = "int8_test"
    /\ pc # "q1_quantize"
    /\ "q1_quantize" \notin raised

\* C11 as claimed: after a successful quantization the run is not aborted
\* by a missing sidecar of either graph, and the reported ratio is
\* (fp32 graph + fp32 sidecar) / (int8 graph + int8 sidecar), a missing
\* sidecar counting as 0.
C11_AsClaimed ==
    QuantizationSucceeded =>
        /\ "q1_sizes" \notin raised
        /\ size_report # None
        /\ size_report[1].ratio[1] * (SizeOrZero(disk, int8_model)
                                        + SizeOrZero(disk, DataPath(int8_model)))
             = size_report[1].ratio[2] * (SizeOrZero(disk, fp32_model)
                                            + SizeOrZero(disk, DataPath(fp32_model)))

\* Nothing in a test run touches the full-precision graph or its sidecar.
FullPrecisionKept ==
    script = "int8_test" =>
        /\ disk'[fp32_model] = disk[fp32_model]
        /\ disk'[DataPath(fp32_model)] = disk[DataPath(fp32_model)]

\* The quantized artifact is a file of its own and, from the battery on,
\* stands beside the full-precision graph.
SideBySide ==
    script = "int8_test" =>
        /\ {int8_model, DataPath(int8_model)}
               \cap {fp32_model, DataPath(fp32_model)} = {}
        /\ pc \in {"q2_load", "q3_battery", "q4_align", "q5_summary", "done",
                   "crashed"}
              => /\ disk[fp32_model] \in {l.graph : l \in ExportLayouts}
                 /\ disk[int8_model] \in {l.graph : l \in Int8Layouts}

\* C12: the quantizer writes to a path other than the full-precision
\* graph's, no step of a test run changes the full-precision graph or its
\* sidecar, whether quantization succeeds or fails, and both artifacts are
\* on disk side by side once quantization has succeeded.
C12_FullPrecisionImmutable == [](SideBySide) /\ [][FullPrecisionKept]_vars

\* C12 case: quantization has written graph and sidecar and the battery is
\* about to run with both artifacts on disk.
C12_Witness ==
    /\ script = "int8_test" /\ pc = "q3_battery"
    /\ disk[int8_model] # None /\ disk[DataPath(int8_model)] # None
    /\ disk[fp32_model] # None /\ disk[DataPath(fp32_model)] # None

====
